---- MODULE Spec2Model ----
(***************************************************************************)
(* A model of svgparser.py: the scanner of SVG path data ("d" property).   *)
(*                                                                         *)
(* A Python string is modelled as a sequence of one-character strings; the *)
(* Python offset pos (0-based) addresses element pos + 1 of the sequence.  *)
(* The scanning functions are pure and become operators that return either *)
(* a result or the exception they raise.  The loop of parse_d_property is  *)
(* the state machine: one action per way an iteration can go.              *)
(***************************************************************************)
EXTENDS Integers, Sequences, FiniteSets, TLC

(***************************************************************************)
(* Bounds of the model.                                                    *)
(***************************************************************************)
\* an input is an example, or a prefix followed by any string over Alphabet
\* of length 0..MaxLen
MaxLen == 4

Alphabet == {"M", "s", "Z", "1", "-", ".", " "}

(***************************************************************************)
(* Module-level tables, lines 80-101.                                      *)
(***************************************************************************)
sep_chars == <<" ", ",", "\n">>

minus_sign == "-"
decimal_point == "."
numbers == <<"0", "1", "2", "3", "4", "5", "6", "7", "8", "9">>
numberic_chars == numbers \o <<minus_sign>> \o <<decimal_point>>

moveto_absolute == "M"
moveto_relative == "m"
moveto_commands == <<moveto_absolute, moveto_relative>>

curveto_absolute == "C"
curveto_relative == "c"
curveto_commands == <<curveto_absolute, curveto_relative>>

smooth_curveto_absolute == "S"
smooth_curveto_relative == "s"
smooth_curveto_commands == <<smooth_curveto_absolute, smooth_curveto_relative>>

\* a slip: closepath is listed as a command and parse_command has no branch for it
commands_with_closepath ==
    moveto_commands \o curveto_commands \o smooth_curveto_commands \o <<"Z">>

commands == moveto_commands \o curveto_commands \o smooth_curveto_commands

(***************************************************************************)
(* Python primitives the scanner uses.                                     *)
(***************************************************************************)
\* `ch in s` for a one-character ch and a string s
In(ch, s) == \E i \in 1..Len(s) : s[i] = ch

\* d[pos], for 0 <= pos < len(d)
At(d, pos) == d[pos + 1]

\* the exceptions; fn is the function whose statement raised
NoErr == [kind |-> "none", char |-> "", pos |-> 0, fn |-> ""]

Err(kind, char, pos, fn) == [kind |-> kind, char |-> char, pos |-> pos, fn |-> fn]

\* d[pos] with pos >= len(d): IndexError: string index out of range
IndexError(pos, fn) == Err("IndexError", "", pos, fn)

\* the value of a decimal digit
DigitVal(ch) == (CHOOSE i \in 1..Len(numbers) : numbers[i] = ch) - 1

\* the value of the digit run d[a:b]
RECURSIVE digits_value(_, _, _)
digits_value(d, a, b) ==
    IF a >= b THEN 0
    ELSE digits_value(d, a, b - 1) * 10 + DigitVal(At(d, b - 1))

\* a number: num / 10^exp; an int has exp = 0 and type "int"
NoVal == [type |-> "none", num |-> 0, exp |-> 0]

\* int(d[a:b]) for d[a:b] = -?[0-9]+
py_int(d, a, b) ==
    [type |-> "int",
     num |-> IF At(d, a) = minus_sign THEN 0 - digits_value(d, a + 1, b)
             ELSE digits_value(d, a, b),
     exp |-> 0]

\* m / 10^k in lowest decimal terms: 1.50 and 1.5 are the same float
RECURSIVE decimal_norm(_, _)
decimal_norm(m, k) ==
    IF k > 0 /\ m % 10 = 0 THEN decimal_norm(m \div 10, k - 1)
    ELSE [type |-> "float", num |-> m, exp |-> k]

RECURSIVE pow10(_)
pow10(k) == IF k = 0 THEN 1 ELSE 10 * pow10(k - 1)

\* float(d[a:b]) for d[a:b] = -?[0-9]+\.[0-9]+, the decimal point at offset point
float_digits(d, first, point, b) ==
    digits_value(d, first, point) * pow10(b - (point + 1)) + digits_value(d, point + 1, b)

float_at(d, a, first, point, b) ==
    decimal_norm(IF first > a THEN 0 - float_digits(d, first, point, b)
                 ELSE float_digits(d, first, point, b),
                 b - (point + 1))

float_from(d, a, first, b) ==
    float_at(d, a, first, CHOOSE i \in first..(b - 1) : At(d, i) = decimal_point, b)

py_float(d, a, b) == float_from(d, a, IF At(d, a) = minus_sign THEN a + 1 ELSE a, b)

(***************************************************************************)
(* raise_unexpected_char, raise_unexpected_end_of_data: lines 104-109.     *)
(* The message of the first is built from d[pos], a read that itself       *)
(* raises IndexError when pos is not an offset of d.                       *)
(***************************************************************************)
raise_unexpected_char(d, pos, fn) ==
    IF pos < Len(d) THEN Err("UnexpectedChar", At(d, pos), pos, fn)
    ELSE IndexError(pos, fn)

raise_unexpected_end_of_data(d, pos, fn) == Err("UnexpectedEndOfData", "", pos, fn)

(***************************************************************************)
(* skip_seps, skip_numbers: lines 112-139.                                 *)
(***************************************************************************)
RECURSIVE skip_seps(_, _)
skip_seps(d, pos) ==
    IF pos < Len(d)
    THEN IF In(At(d, pos), sep_chars) THEN skip_seps(d, pos + 1) ELSE pos
    ELSE pos

RECURSIVE skip_numbers(_, _)
skip_numbers(d, pos) ==
    IF pos < Len(d)
    THEN IF In(At(d, pos), numbers) THEN skip_numbers(d, pos + 1) ELSE pos
    ELSE pos

(***************************************************************************)
(* parse_number: lines 142-175.  Returns [ok, pos, val, err].              *)
(* The function is cut into the stretches between its assignments to pos:  *)
(* each stretch is an operator whose parameter pos is the cursor it starts *)
(* with.                                                                   *)
(***************************************************************************)
NumOk(pos, val) == [ok |-> TRUE, pos |-> pos, val |-> val, err |-> NoErr]
NumFail(e) == [ok |-> FALSE, pos |-> 0, val |-> NoVal, err |-> e]

\* line 175, pos as line 173 leaves it
parse_number_float(d, number_start_pos, pos) ==
    NumOk(pos, py_float(d, number_start_pos, pos))

\* a slip: no digit is required after the decimal point
parse_number_fraction_lenient(d, number_start_pos, pos) ==
    parse_number_float(d, number_start_pos, skip_numbers(d, pos))

\* lines 169-173, pos as line 165 leaves it
parse_number_fraction(d, number_start_pos, pos) ==
    IF ~(pos < Len(d)) THEN NumFail(IndexError(pos, "parse_number"))
    ELSE IF ~In(At(d, pos), numbers)
    THEN NumFail(raise_unexpected_char(d, pos, "parse_number"))
    ELSE parse_number_float(d, number_start_pos, skip_numbers(d, pos))

\* lines 164-167, pos as line 162 leaves it
parse_number_point(d, number_start_pos, pos) ==
    IF pos < Len(d) /\ At(d, pos) = decimal_point
    THEN parse_number_fraction(d, number_start_pos, pos + 1)
    ELSE NumOk(pos, py_int(d, number_start_pos, pos))

\* lines 159-162, pos as lines 156-157 leave it
parse_number_digits(d, number_start_pos, pos) ==
    IF ~(pos < Len(d)) THEN NumFail(IndexError(pos, "parse_number"))
    ELSE IF ~In(At(d, pos), numbers)
    THEN NumFail(raise_unexpected_char(d, pos, "parse_number"))
    ELSE parse_number_point(d, number_start_pos, skip_numbers(d, pos))

\* lines 146-157, pos as line 144 leaves it
parse_number_start(d, pos) ==
    IF ~(pos < Len(d))
    THEN NumFail(raise_unexpected_end_of_data(d, pos, "parse_number"))
    ELSE IF ~In(At(d, pos), numberic_chars)
    THEN NumFail(raise_unexpected_char(d, pos, "parse_number"))
    ELSE parse_number_digits(d, pos, IF At(d, pos) = minus_sign THEN pos + 1 ELSE pos)

\* a slip: the separators before the number are not skipped
parse_number_no_skip(d, pos) == parse_number_start(d, pos)

parse_number(d, pos) == parse_number_start(d, skip_seps(d, pos))

(***************************************************************************)
(* parse_cooridate: lines 178-191.  Returns [ok, pos, x, y, err].          *)
(***************************************************************************)
CoordOk(pos, x, y) == [ok |-> TRUE, pos |-> pos, x |-> x, y |-> y, err |-> NoErr]
CoordFail(e) == [ok |-> FALSE, pos |-> 0, x |-> NoVal, y |-> NoVal, err |-> e]

\* line 191, ry what line 189 returns or raises
parse_cooridate_pair(x, ry) ==
    IF ~ry.ok THEN CoordFail(ry.err) ELSE CoordOk(ry.pos, x, ry.val)

\* lines 184-189, pos as line 183 leaves it
parse_cooridate_y(d, x, pos) ==
    IF ~(pos < Len(d))
    THEN CoordFail(raise_unexpected_end_of_data(d, pos, "parse_cooridate"))
    ELSE parse_cooridate_pair(x, parse_number(d, skip_seps(d, pos)))

\* line 183, rx what line 181 returns or raises
parse_cooridate_x(d, rx) ==
    IF ~rx.ok THEN CoordFail(rx.err)
    ELSE parse_cooridate_y(d, rx.val, skip_seps(d, rx.pos))

parse_cooridate(d, pos) == parse_cooridate_x(d, parse_number(d, pos))

(***************************************************************************)
(* PathCommand and parse_command: lines 194-221.                           *)
(* Returns [ok, pos, cmd, err].  args collects the coordinates parsed so   *)
(* far, r is what the latest parse_cooridate returns or raises.            *)
(***************************************************************************)
PathCommand(command, args) == [command |-> command, args |-> args]

NoCmd == PathCommand("", <<>>)

CmdOk(pos, cmd) == [ok |-> TRUE, pos |-> pos, cmd |-> cmd, err |-> NoErr]
CmdFail(e) == [ok |-> FALSE, pos |-> 0, cmd |-> NoCmd, err |-> e]

\* lines 206-207
parse_moveto(c, r) ==
    IF ~r.ok THEN CmdFail(r.err)
    ELSE CmdOk(r.pos, PathCommand(c, <<r.x, r.y>>))

\* lines 217-218
parse_smooth_curveto_xy(c, args, r) ==
    IF ~r.ok THEN CmdFail(r.err)
    ELSE CmdOk(r.pos, PathCommand(c, args \o <<r.x, r.y>>))

\* a slip: the smooth curveto branch returns after its first pair, as moveto does
parse_smooth_curveto_one_pair(c, d, r2) == parse_moveto(c, r2)

\* lines 216-217
parse_smooth_curveto(c, d, r2) ==
    IF ~r2.ok THEN CmdFail(r2.err)
    ELSE parse_smooth_curveto_xy(c, <<r2.x, r2.y>>, parse_cooridate(d, r2.pos))

\* lines 212-213
parse_curveto_xy(c, args, r) ==
    IF ~r.ok THEN CmdFail(r.err)
    ELSE CmdOk(r.pos, PathCommand(c, args \o <<r.x, r.y>>))

\* lines 211-212
parse_curveto_2(c, d, args, r2) ==
    IF ~r2.ok THEN CmdFail(r2.err)
    ELSE parse_curveto_xy(c, args \o <<r2.x, r2.y>>, parse_cooridate(d, r2.pos))

\* lines 210-211
parse_curveto(c, d, r1) ==
    IF ~r1.ok THEN CmdFail(r1.err)
    ELSE parse_curveto_2(c, d, <<r1.x, r1.y>>, parse_cooridate(d, r1.pos))

parse_command(c, d, pos) ==
    IF In(c, moveto_commands) THEN parse_moveto(c, parse_cooridate(d, pos))
    ELSE IF In(c, curveto_commands) THEN parse_curveto(c, d, parse_cooridate(d, pos))
    ELSE IF In(c, smooth_curveto_commands)
    THEN parse_smooth_curveto(c, d, parse_cooridate(d, pos))
    ELSE CmdFail(Err("UnsupportedCommand", c, pos, "parse_command"))

(***************************************************************************)
(* parse_d_property as a function of its argument: lines 224-253.          *)
(* Returns [returned, value, error]: the list it returns, or the exception *)
(* that leaves it.  parse_loop is the while loop entered with the cursor   *)
(* at pos; parse_loop_next is the rest of an iteration once parse_command  *)
(* has returned or raised r.                                               *)
(***************************************************************************)
None == "None"

Returned(value) == [returned |-> TRUE, value |-> value, error |-> NoErr]
Raised(e) == [returned |-> FALSE, value |-> <<>>, error |-> e]

RECURSIVE parse_loop(_, _, _, _)
RECURSIVE parse_loop_next(_, _, _, _)

\* lines 243-244 (last_command is already the new one), 247, 251
parse_loop_next(d, command_list, last_command, r) ==
    IF ~r.ok THEN Raised(r.err)
    ELSE parse_loop(d, skip_seps(d, r.pos), Append(command_list, r.cmd), last_command)

\* lines 237-253
parse_loop(d, pos, command_list, last_command) ==
    IF ~(pos < Len(d)) THEN Returned(command_list)
    ELSE IF In(At(d, pos), commands)
    THEN parse_loop_next(d, command_list, At(d, pos),
                         parse_command(At(d, pos), d, pos + 1))
    ELSE IF In(At(d, pos), numberic_chars) /\ last_command # None
    THEN parse_loop_next(d, command_list, last_command,
                         parse_command(last_command, d, (pos + 1) - 1))
    ELSE Raised(raise_unexpected_char(d, pos + 1, "parse_d_property"))

parse_d_property(d) ==
    IF Len(d) = 0 THEN Raised(Err("EmptyInput", "", 0, "parse_d_property"))
    ELSE parse_loop(d, skip_seps(d, skip_seps(d, 0)), <<>>, None)

(***************************************************************************)
(* The inputs.                                                             *)
(***************************************************************************)
\* sample_d of line 257
sample_d ==
    <<"M", "4", "7", ".", "9", "2", ",", "4", "8", ".", "6", "6",
      "c", "0", ".", "2", "7", ",", "0", ".", "3", "5", ",", "0", ".", "2", "8",
      ",", "0", ".", "5", "9", ",", "0", ".", "4", "3", ",", "1", ".", "0", "3",
      "c", "1", ".", "2", "4", ",", "3", ".", "6", "2", ",", "2", ".", "8", "2",
      ",", "1", "4", ".", "2", "2", ",", "3", ".", "5", "9", ",", "2", "0", ".",
      "9", "6">>

Examples ==
    { sample_d,
      <<" ", ",", "\n">>,
      <<",", "M", ",", "1", ",", "\n", "2", ",">>,
      <<"1", "M">>,
      <<"L", "1", " ", "1">>,
      <<"M", "0", " ", "0", " ", "1", " ", "1">>,
      <<"M", "0", " ", "0", "-", "1", "-", "1">>,
      <<"M", " ", "1", "0", "0", " ", "1", "0", "0">>,
      <<"M", "1", "0", "0", ",", "1", "0", "0">>,
      <<"M", "1", "0", "0", " ", "1", "0", "0">>,
      <<"M", "1", ".", "5", " ", "2", ".", "2", "5">>,
      <<"M", "1", "e", "5", " ", "2">>,
      <<"M", "1", " ", "2", "e", "3">>,
      <<"M", "-", "0", ".", "5", "0", " ", " ", "-", "1", "2", "0">>,
      <<"\n", "m", "-", "0", "7", ",", "2", ".", "5", "0", "\n">>,
      <<"M", "0", " ", "0", "Z">>,
      <<"M", "0", " ", "0", " ", "1", " ", "1", "Z">>,
      <<"M", "0", " ", "0", " ", "1">>,
      <<"M", "0", " ", "0", " ", "1", " ", "-">>,
      <<"M", "0", " ", "0", ".", "5", " ", "1">>,
      <<"M", "1", " ", "1", "L", "2", " ", "2">>,
      <<"s", "1", "-", "1", "-", "1", "-", "1">>,
      <<"S", "1", " ", "2", ",", "3", " ", "4", "M", "5", " ", "6", " ", "7", " ", "8", " ">>,
      <<"s", "1", "-", "1", "-", "1", "-", "1", "-", "2", "-", "2", "-", "2", "-", "2">>,
      <<"s", "1", "-", "1", "-", "1", "-", "1", "-", "2", "-", "2", "-", "2">>,
      <<"s", "1", " ", "1", " ", "1">>,
      <<"C", "1", " ", "2", " ", "3", " ", "4", " ", "5", " ", "6">>,
      <<"c", "1", "-", "2", "-", "3", "-", "4", "-", "5", "-", "6", "M", "0", ",", "0">>,
      <<"C", "1", " ", "2", " ", "3", " ", "4", " ", "5", " ", "6", " ", "7", " ", "8", " ",
        "9", " ", "1", "0", " ", "1", "1", " ", "1", "2">>,
      <<"C", "1", " ", "2", " ", "3", " ", "4", " ", "5">>,
      <<"c", "1", " ", "2", " ", "3", " ", "4", " ", "5", " ">>,
      <<"c", "1", " ", "2", " ", "3", " ", "4", " ", "5", " ", "6", "s", "7", " ", "8", " ",
        "9", " ", "0", "m", "1", " ", "1">> }

Strings(n) == [1..n -> Alphabet]

\* nothing; a complete moveto; a smooth curveto that lacks its second pair
Prefixes ==
    { <<>>,
      <<"M", "1", " ", "1">>,
      <<"s", "1", "-", "1">> }

(***************************************************************************)
(* parse_d_property step by step: lines 224-253.  One action per way an    *)
(* iteration of the loop can go.                                           *)
(***************************************************************************)
VARIABLES
    d,              \* the argument
    pc,             \* "idle", "start", "loop" (line 237), "done" (returned), "error" (raised)
    pos,            \* the cursor
    c,              \* the character read at line 238
    command_list,
    last_command,
    starts,         \* history: the offset at which each record of command_list starts
    result,         \* what the caller receives from a return
    error           \* what the caller receives from a raise

vars == <<d, pc, pos, c, command_list, last_command, starts, result, error>>

NoResult == [returned |-> FALSE, value |-> <<>>]

\* no call yet
Init ==
    /\ d = <<>>
    /\ pc = "idle"
    /\ pos = 0
    /\ c = ""
    /\ command_list = <<>>
    /\ last_command = None
    /\ starts = <<>>
    /\ result = NoResult
    /\ error = NoErr

\* line 224: the call, with an input as its argument
Call ==
    /\ pc = "idle"
    /\ \/ d' \in Examples
       \/ \E p \in Prefixes, n \in 0..MaxLen : \E w \in Strings(n) : d' = p \o w
    /\ pc' = "start"
    /\ UNCHANGED <<pos, c, command_list, last_command, starts, result, error>>

\* a slip: the exception is caught and the records parsed so far are returned
Raise_partial(e) ==
    /\ pc' = "error"
    /\ error' = e
    /\ result' = [returned |-> TRUE, value |-> command_list]

\* an exception leaves parse_d_property: nothing catches it, nothing is returned
Raise(e) ==
    /\ pc' = "error"
    /\ error' = e
    /\ result' = result

\* line 253
Return(value) ==
    /\ pc' = "done"
    /\ result' = [returned |-> TRUE, value |-> value]
    /\ error' = error

\* a slip: the input is tested for emptiness after its separators are skipped
ParseEmpty_after_skip ==
    /\ pc = "start"
    /\ ~(skip_seps(d, 0) < Len(d))
    /\ Raise(Err("EmptyInput", "", 0, "parse_d_property"))
    /\ UNCHANGED <<d, pos, c, command_list, last_command, starts>>

\* lines 225-226
ParseEmpty ==
    /\ pc = "start"
    /\ Len(d) = 0
    /\ Raise(Err("EmptyInput", "", 0, "parse_d_property"))
    /\ UNCHANGED <<d, pos, c, command_list, last_command, starts>>

\* lines 228-235
ParseBegin ==
    /\ pc = "start"
    /\ Len(d) # 0
    /\ command_list' = <<>>
    /\ pos' = skip_seps(d, skip_seps(d, 0))
    /\ last_command' = None
    /\ pc' = "loop"
    /\ UNCHANGED <<d, c, starts, result, error>>

\* a slip: the new record is put in front of the list
LoopCommand_prepend ==
    /\ pc = "loop"
    /\ pos < Len(d)
    /\ In(At(d, pos), commands)
    /\ c' = At(d, pos)
    /\ LET r == parse_command(At(d, pos), d, pos + 1) IN
       IF r.ok
       THEN /\ command_list' = <<r.cmd>> \o command_list
            /\ starts' = Append(starts, pos)
            /\ last_command' = At(d, pos)
            /\ pos' = skip_seps(d, r.pos)
            /\ UNCHANGED <<pc, result, error>>
       ELSE /\ pos' = pos + 1
            /\ Raise(r.err)
            /\ UNCHANGED <<command_list, starts, last_command>>
    /\ UNCHANGED d

\* lines 237-244, 251: an explicit command letter
LoopCommand ==
    /\ pc = "loop"
    /\ pos < Len(d)
    /\ In(At(d, pos), commands)
    /\ c' = At(d, pos)
    /\ LET r == parse_command(At(d, pos), d, pos + 1) IN
       IF r.ok
       THEN /\ command_list' = Append(command_list, r.cmd)
            /\ starts' = Append(starts, pos)
            /\ last_command' = At(d, pos)
            /\ pos' = skip_seps(d, r.pos)
            /\ UNCHANGED <<pc, result, error>>
       ELSE /\ pos' = pos + 1
            /\ Raise(r.err)
            /\ UNCHANGED <<command_list, starts, last_command>>
    /\ UNCHANGED d

\* a slip: the cursor is taken back and the position parse_command returns is dropped
LoopElision_stuck ==
    /\ pc = "loop"
    /\ pos < Len(d)
    /\ ~In(At(d, pos), commands)
    /\ In(At(d, pos), numberic_chars) /\ last_command # None
    /\ c' = At(d, pos)
    /\ LET r == parse_command(last_command, d, (pos + 1) - 1) IN
       IF r.ok
       THEN /\ command_list' = Append(command_list, r.cmd)
            /\ starts' = Append(starts, pos)
            /\ pos' = skip_seps(d, (pos + 1) - 1)
            /\ UNCHANGED <<pc, result, error>>
       ELSE /\ pos' = pos + 1
            /\ Raise(r.err)
            /\ UNCHANGED <<command_list, starts>>
    /\ UNCHANGED <<d, last_command>>

\* a slip: the cursor is not taken back to the character already read
LoopElision_no_rewind ==
    /\ pc = "loop"
    /\ pos < Len(d)
    /\ ~In(At(d, pos), commands)
    /\ In(At(d, pos), numberic_chars) /\ last_command # None
    /\ c' = At(d, pos)
    /\ LET r == parse_command(last_command, d, pos + 1) IN
       IF r.ok
       THEN /\ command_list' = Append(command_list, r.cmd)
            /\ starts' = Append(starts, pos)
            /\ pos' = skip_seps(d, r.pos)
            /\ UNCHANGED <<pc, result, error>>
       ELSE /\ pos' = pos + 1
            /\ Raise(r.err)
            /\ UNCHANGED <<command_list, starts>>
    /\ UNCHANGED <<d, last_command>>

\* lines 237-240, 245-247, 251: a number where a letter is expected
LoopElision ==
    /\ pc = "loop"
    /\ pos < Len(d)
    /\ ~In(At(d, pos), commands)
    /\ In(At(d, pos), numberic_chars) /\ last_command # None
    /\ c' = At(d, pos)
    /\ LET r == parse_command(last_command, d, (pos + 1) - 1) IN
       IF r.ok
       THEN /\ command_list' = Append(command_list, r.cmd)
            /\ starts' = Append(starts, pos)
            /\ pos' = skip_seps(d, r.pos)
            /\ UNCHANGED <<pc, result, error>>
       ELSE /\ pos' = pos + 1
            /\ Raise(r.err)
            /\ UNCHANGED <<command_list, starts>>
    /\ UNCHANGED <<d, last_command>>

\* lines 237-240, 248-249: pos has already been advanced past c
LoopUnexpected ==
    /\ pc = "loop"
    /\ pos < Len(d)
    /\ ~In(At(d, pos), commands)
    /\ ~(In(At(d, pos), numberic_chars) /\ last_command # None)
    /\ c' = At(d, pos)
    /\ pos' = pos + 1
    /\ Raise(raise_unexpected_char(d, pos + 1, "parse_d_property"))
    /\ UNCHANGED <<d, command_list, last_command, starts>>

\* lines 237, 253
LoopExit ==
    /\ pc = "loop"
    /\ ~(pos < Len(d))
    /\ Return(command_list)
    /\ UNCHANGED <<d, pos, c, command_list, last_command, starts>>

Next ==
    \/ Call
    \/ ParseEmpty
    \/ ParseBegin
    \/ LoopCommand
    \/ LoopElision
    \/ LoopUnexpected
    \/ LoopExit

Spec == Init /\ [][Next]_vars

(***************************************************************************)
(* The properties.                                                         *)
(***************************************************************************)
Terminal == pc \in {"done", "error"}

\* the argument count of a kind of record (the table of record kinds)
Arity(letter) ==
    IF letter \in {"M", "m"} THEN 2
    ELSE IF letter \in {"C", "c"} THEN 6
    ELSE IF letter \in {"S", "s"} THEN 4
    ELSE 0 - 1

HasArity(list) == \A i \in 1..Len(list) : Len(list[i].args) = Arity(list[i].command)

\* C1: every record built, at any moment and in the list returned, has the
\* argument count of its letter: 2 for M/m, 6 for C/c, 4 for S/s; a record
\* short of arguments is never appended.
C1_Arity ==
    /\ HasArity(command_list)
    /\ HasArity(result.value)

\* a returned list that holds a curveto, a smooth curveto and a moveto
C1_Witness ==
    /\ result.returned
    /\ \E i, j, k \in 1..Len(result.value) :
          /\ result.value[i].command = "c"
          /\ result.value[j].command = "s"
          /\ result.value[k].command = "m"

\* C2: a call ends in one of two ways: it returns a list, and then the cursor
\* has covered the whole input and no error exists; or it raises, and then
\* nothing is returned, however many records had been accumulated.  Before
\* it ends the caller has received nothing.
C2_AllOrNothing ==
    /\ pc = "error" => ~result.returned /\ result.value = <<>> /\ error # NoErr
    /\ pc = "done" => result.returned /\ error = NoErr
    /\ result.returned =>
          /\ pc = "done"
          /\ pos = Len(d)
          /\ result.value = command_list
    /\ ~Terminal => result = NoResult /\ error = NoErr

\* a failure after two records were accumulated
C2_Witness ==
    /\ pc = "error"
    /\ Len(command_list) >= 2

Int0 == [type |-> "int", num |-> 0, exp |-> 0]
Int1 == [type |-> "int", num |-> 1, exp |-> 0]
IntMinus1 == [type |-> "int", num |-> 0 - 1, exp |-> 0]

\* the explicit letter most recently turned into a record, None when there is none
LastExplicit ==
    LET explicit == { i \in 1..Len(starts) : In(At(d, starts[i]), commands) }
    IN  IF explicit = {} THEN None
        ELSE At(d, starts[CHOOSE i \in explicit : \A j \in explicit : j <= i])

\* one step of the loop, as the elision rule has it
C3_Step ==
    /\ last_command' # last_command =>
          /\ pc = "loop" /\ pos < Len(d)
          /\ In(At(d, pos), commands)
          /\ last_command' = At(d, pos)
    /\ ( /\ pc = "loop" /\ pos < Len(d)
         /\ In(At(d, pos), numbers \o <<minus_sign>>)
         /\ last_command # None
         /\ pc' = "loop" ) =>
          /\ command_list' = Append(command_list, command_list'[Len(command_list')])
          /\ command_list'[Len(command_list')].command = last_command
          /\ command_list'[Len(command_list')].args[1] = parse_number(d, pos).val
          /\ parse_number_start(d, pos).ok
          /\ last_command' = last_command

\* C3: a digit or minus sign read where a letter is expected, with a previous
\* explicit letter, gives (when its parameters parse) one more record of the
\* kind of the most recent explicit letter, its parameters starting at that
\* very character; last_command changes only when an explicit letter is read.
\* "M0 0 1 1" gives M(0,0) M(1,1) and "M0 0-1-1" gives M(0,0) M(-1,-1).
C3_Elision ==
    /\ [][C3_Step]_vars
    /\ [](pc = "loop" => last_command = LastExplicit)
    /\ [](Terminal /\ d = <<"M", "0", " ", "0", " ", "1", " ", "1">> =>
            result = [returned |-> TRUE,
                      value |-> <<PathCommand("M", <<Int0, Int0>>),
                                  PathCommand("M", <<Int1, Int1>>)>>])
    /\ [](Terminal /\ d = <<"M", "0", " ", "0", "-", "1", "-", "1">> =>
            result = [returned |-> TRUE,
                      value |-> <<PathCommand("M", <<Int0, Int0>>),
                                  PathCommand("M", <<IntMinus1, IntMinus1>>)>>])

\* an elided smooth curveto after an explicit one, the letter an "s"
C3_Witness ==
    /\ pc = "done"
    /\ Len(command_list) = 2
    /\ starts[2] > 0 /\ At(d, starts[2]) = minus_sign
    /\ command_list[2].command = "s"

\* letters of path data that the scanner has no command for
OtherLetters == {"Z", "z", "L", "l", "H", "h", "V", "v", "Q", "q", "T", "t", "A", "a"}

C5_EndOfInput ==
    ( /\ pc = "error"
      /\ error.fn \in {"parse_number", "parse_cooridate"}
      /\ error.pos >= Len(d) ) =>
        error.kind = "UnexpectedEndOfData"

\* what the caller has received, the error apart
Outcome == [returned |-> result.returned, value |-> result.value]

WithoutError(o) == [returned |-> o.returned, value |-> o.value]

OutcomeOf(x) == WithoutError(parse_d_property(x))

\* x with the character s put in after its first i characters
Insert(x, i, s) == SubSeq(x, 1, i) \o <<s>> \o SubSeq(x, i + 1, Len(x))

\* the place after the first i characters of x is inside a numeric literal
InsideNumber(x, i) ==
    /\ 0 < i /\ i < Len(x)
    /\ In(x[i], numberic_chars)
    /\ In(x[i + 1], numbers \o <<decimal_point>>)

Int100 == [type |-> "int", num |-> 100, exp |-> 0]

\* C6: one more separator (space, comma or newline) at any place of a
\* non-empty input that is not inside a numeric literal changes nothing: the
\* parse fails as before, or returns the same records.  "M 100 100",
\* "M100,100" and "M100 100" all give the single record M(100,100).
C6_Separators ==
    /\ (Terminal /\ Len(d) > 0) =>
          \A i \in 0..Len(d) : \A k \in 1..Len(sep_chars) :
              ~InsideNumber(d, i) => OutcomeOf(Insert(d, i, sep_chars[k])) = Outcome
    /\ ( /\ Terminal
         /\ d \in { <<"M", " ", "1", "0", "0", " ", "1", "0", "0">>,
                     <<"M", "1", "0", "0", ",", "1", "0", "0">>,
                     <<"M", "1", "0", "0", " ", "1", "0", "0">> } ) =>
          Outcome = [returned |-> TRUE, value |-> <<PathCommand("M", <<Int100, Int100>>)>>]

\* separators of all three kinds before, inside and after a moveto
C6_Witness ==
    /\ pc = "done"
    /\ d = <<",", "M", ",", "1", ",", "\n", "2", ",">>
    /\ Len(result.value) = 1
    /\ result.value[1].args[2].num = 2

OnlySeparators(x) == \A i \in 1..Len(x) : In(x[i], sep_chars)

\* C7: the EmptyInput error is raised exactly for the input of length zero; a
\* non-empty input of separators only returns the empty list.
C7_EmptyInput ==
    Terminal =>
        /\ (pc = "error" /\ error.kind = "EmptyInput") <=> (Len(d) = 0)
        /\ (Len(d) > 0 /\ OnlySeparators(d)) => result = [returned |-> TRUE, value |-> <<>>]

C7_Witness ==
    /\ pc = "done"
    /\ Len(d) > 1
    /\ OnlySeparators(d)

\* a step of the loop that does not end the call moves the cursor forward
C8_Step ==
    /\ (pc = "loop" /\ pc' = "loop") => (pos < pos' /\ pos' <= Len(d))
    /\ (pc = "start" /\ pc' = "loop") => (0 <= pos' /\ pos' <= Len(d))
    /\ pc \in {"idle", "start", "loop"}

\* the separator loop and the digit-run loop started at p stop at a cursor in
\* p..len(d), having advanced over separators (digits) only
C8_Loops ==
    \A p \in 0..Len(d) :
        /\ p <= skip_seps(d, p) /\ skip_seps(d, p) <= Len(d)
        /\ \A q \in p..(skip_seps(d, p) - 1) : In(At(d, q), sep_chars)
        /\ p <= skip_numbers(d, p) /\ skip_numbers(d, p) <= Len(d)
        /\ \A q \in p..(skip_numbers(d, p) - 1) : In(At(d, q), numbers)

\* C8: every call ends: the separator and digit loops end at a cursor not
\* before their start and not past the end, and every iteration of the driver
\* loop that does not end the call leaves the cursor strictly greater (the
\* elision case included) and not past the end of the input, so that a call
\* makes at most len(d) iterations that continue.
C8_Terminates ==
    /\ [][C8_Step]_vars
    /\ []C8_Loops

\* an elision step has been taken and the loop goes on
C8_Witness ==
    /\ pc = "loop"
    /\ Len(command_list) = 2
    /\ ~In(At(d, starts[2]), commands)
    /\ pos < Len(d)

Increasing(offsets) ==
    \A i, j \in 1..Len(offsets) : i < j => offsets[i] < offsets[j]

\* the list only grows at its end
C9_Step ==
    /\ Len(command_list') >= Len(command_list)
    /\ SubSeq(command_list', 1, Len(command_list)) = command_list
    /\ Len(command_list') <= Len(command_list) + 1

\* record i is the command occurrence at offset starts[i]: its letter is the
\* one there, or for an elided repeat the letter of the record before it,
\* and its first argument is the number that stands there
C9_Occurrence(i) ==
    /\ starts[i] \in 0..(Len(d) - 1)
    /\ IF In(At(d, starts[i]), commands)
       THEN /\ command_list[i].command = At(d, starts[i])
            /\ command_list[i].args[1] = parse_number(d, starts[i] + 1).val
       ELSE /\ In(At(d, starts[i]), numbers \o <<minus_sign>>)
            /\ i > 1
            /\ command_list[i].command = command_list[i - 1].command
            /\ command_list[i].args[1] = parse_number(d, starts[i]).val

\* C9: the list holds one record per command occurrence, in the order of the
\* input: records are appended at the end only and never changed, the
\* offsets at which they start increase strictly, every explicit letter of
\* a parsed input has its record, and the list returned is that list.
C9_Order ==
    /\ [][C9_Step]_vars
    /\ [](/\ Len(starts) = Len(command_list)
          /\ Increasing(starts)
          /\ \A i \in 1..Len(command_list) : C9_Occurrence(i))
    /\ [](result.returned =>
            /\ result.value = command_list
            /\ Cardinality({ i \in 1..Len(d) : In(d[i], commands) })
                 = Cardinality({ i \in 1..Len(starts) : In(At(d, starts[i]), commands) }))

\* three records of three kinds returned in the order of the input
C9_Witness ==
    /\ result.returned
    /\ Len(result.value) = 3
    /\ result.value[1].command = "c"
    /\ result.value[2].command = "s"
    /\ result.value[3].command = "m"
    /\ starts[3] > starts[2]

\* C10 as stated: when the loop's last branch rejects the character c it read
\* at offset pos - 1, the error is an unexpected-character error that names
\* c and that offset.
C10_NamesCharacter ==
    ( /\ pc = "error"
      /\ error.fn = "parse_d_property"
      /\ error.kind # "EmptyInput" ) =>
        /\ error.kind = "UnexpectedChar"
        /\ error.char = c
        /\ error.pos = pos - 1

\* the first offset from p on that holds no character of table, len(x) if none
FirstNot(x, p, table) ==
    CHOOSE q \in p..Len(x) :
        /\ q = Len(x) \/ ~In(At(x, q), table)
        /\ \A q2 \in p..(q - 1) : In(At(x, q2), table)

DigitOf(ch) ==
    CASE ch = "0" -> 0 [] ch = "1" -> 1 [] ch = "2" -> 2 [] ch = "3" -> 3 [] ch = "4" -> 4
      [] ch = "5" -> 5 [] ch = "6" -> 6 [] ch = "7" -> 7 [] ch = "8" -> 8 [] ch = "9" -> 9

\* the number written by the digits x[a:b], read from the left
RECURSIVE Numeral(_, _, _, _)
Numeral(x, a, b, acc) ==
    IF a >= b THEN acc ELSE Numeral(x, a + 1, b, acc * 10 + DigitOf(At(x, a)))

Signed(x, s, n) == IF At(x, s) = "-" THEN 0 - n ELSE n

UnexpectedAt(r, x, q) ==
    /\ ~r.ok
    /\ r.err.kind = "UnexpectedChar" /\ r.err.char = At(x, q) /\ r.err.pos = q

\* r is the integer written by x[s:e]
IsInt(r, x, s, ds, e) ==
    /\ r.ok /\ r.pos = e
    /\ r.val = [type |-> "int", num |-> Signed(x, s, Numeral(x, ds, e, 0)), exp |-> 0]

\* r is the fractional value written by x[s:e], its decimal point at offset pt
IsFloat(r, x, s, ds, pt, e) ==
    /\ r.ok /\ r.pos = e
    /\ r.val.type = "float"
    /\ r.val.exp \in 0..(e - (pt + 1))
    /\ r.val.num * pow10(e - (pt + 1)) =
         Signed(x, s, Numeral(x, pt + 1, e, Numeral(x, ds, pt, 0))) * pow10(r.val.exp)

\* what parse_number started at p is to do, the literal's digits starting at ds
C11_Literal(r, x, s, ds) ==
    IF ds = Len(x) THEN ~r.ok
    ELSE IF ~In(At(x, ds), numbers) THEN UnexpectedAt(r, x, ds)
    ELSE LET e1 == FirstNot(x, ds, numbers) IN
         IF e1 < Len(x) /\ At(x, e1) = "."
         THEN IF e1 + 1 = Len(x) THEN ~r.ok
              ELSE IF ~In(At(x, e1 + 1), numbers) THEN UnexpectedAt(r, x, e1 + 1)
              ELSE IsFloat(r, x, s, ds, e1, FirstNot(x, e1 + 1, numbers))
         ELSE IsInt(r, x, s, ds, e1)

C11_At(x, p) ==
    LET r == parse_number(x, p)
        s == FirstNot(x, p, sep_chars)
    IN  IF s = Len(x) THEN ~r.ok
        ELSE IF ~In(At(x, s), numbers \o <<"-">>) THEN UnexpectedAt(r, x, s)
        ELSE C11_Literal(r, x, s, IF At(x, s) = "-" THEN s + 1 ELSE s)

Float(num, exp) == [type |-> "float", num |-> num, exp |-> exp]

\* C11: parse_number started at any offset skips the separators, then takes
\* the longest literal "-"? digits ("." digits)? and returns the offset after
\* it with the value its characters write: an integer without a decimal
\* point, a fractional value with one.  A first character that is no digit
\* or minus sign (a decimal point included), a minus sign before a non-digit
\* and a decimal point before a non-digit are unexpected-character errors.
\* An exponent is not part of the literal.  "M1.5 2.25" gives 1.5 and 2.25.
C11_Number ==
    /\ pc = "start" => \A p \in 0..Len(d) : C11_At(d, p)
    /\ (Terminal /\ d = <<"M", "1", ".", "5", " ", "2", ".", "2", "5">>) =>
          result = [returned |-> TRUE,
                    value |-> <<PathCommand("M", <<Float(15, 1), Float(225, 2)>>)>>]
    /\ (Terminal /\ d = <<"M", "1", " ", "2", "e", "3">>) =>
          /\ parse_number(d, 2) = NumOk(4, [type |-> "int", num |-> 2, exp |-> 0])
          /\ pc = "error"

\* a negative fraction with a trailing zero, then a negative integer after
\* two separators, both consumed whole and returned
C11_Witness ==
    /\ pc = "done"
    /\ d = <<"M", "-", "0", ".", "5", "0", " ", " ", "-", "1", "2", "0">>
    /\ parse_number(d, 1) = NumOk(6, Float(0 - 5, 1))
    /\ parse_number(d, 6) = NumOk(12, [type |-> "int", num |-> 0 - 120, exp |-> 0])
    /\ result.value[1].args = <<Float(0 - 5, 1), [type |-> "int", num |-> 0 - 120, exp |-> 0]>>

\* a read d[q] with q >= len(d): python raises IndexError at that statement
ReadPastEnd == error.kind = "IndexError" /\ error.pos >= Len(d)

\* C12 as stated: throughout a call on an input of length n the cursor
\* stays within 0..n and every read of an input character, the reads after
\* a minus sign or a decimal point and the read that builds an error
\* message included, is at an offset below n.
C12_CursorBounds ==
    /\ 0 <= pos /\ pos <= Len(d)
    /\ ~ReadPastEnd

====
